---- MODULE Spec2Model ----
(***************************************************************************)
(* Model of the chess / special chess / checkers rules engine of           *)
(* src/chess.py and src/checkers.py.                                       *)
(*                                                                         *)
(* Conventions.                                                            *)
(*  - A figure is a record [kind, color, power]; kind is the Python class  *)
(*    name, power is Demon.power ("None" for every other class).  An       *)
(*    empty cell (Python None) is the record None.                         *)
(*  - Colours: "white" stands for the source's first colour, "black" for   *)
(*    the second one.                                                      *)
(*  - A board is a function from <<row, col>> to figures.                  *)
(*  - get_possible_moves returns a Python list that the program only uses  *)
(*    for membership, emptiness and display; it is modelled by the set of  *)
(*    its elements.                                                        *)
(*  - move_count is kept in half moves: the model's value is twice the     *)
(*    Python value (which starts at 1 and moves in steps of 0.5).          *)
(***************************************************************************)
EXTENDS Integers, Sequences, FiniteSets, TLC

VARIABLES
    mode,          \* "classic" | "special" (Game), "checkers" (CheckersGame), "pieces"
    board,         \* Board.board
    current_turn,  \* Game.current_turn
    move_count,    \* 2 * Game.move_count
    moves,         \* Game.moves, the undo log
    game_over,     \* TRUE once play() has left its loop
    winner,        \* colour announced when the loop was left
    pc,            \* CheckersGame.play: "select" | "target" | "crashed"
    start,         \* CheckersGame.play: <<start_row, start_col>>
    is_killer,     \* CheckersGame.play: is_killer
    last,          \* what the last step did
    hints,         \* the destinations last computed for display
    plies,         \* number of turns played or taken back since Init
    request        \* arguments of the last call made on a figure or board directly

vars == <<mode, board, current_turn, move_count, moves, game_over, winner,
          pc, start, is_killer, last, hints, plies, request>>

----------------------------------------------------------------------------
(* Bounds *)

\* Turns played on top of the opening a behaviour starts from; turns can be
\* taken back one step longer.
MaxPly == 1

\* Figures put around the figure under test, and how far from it the first
\* of them may stand.
MaxBlockers == 1

MaxDist == 2

----------------------------------------------------------------------------
(* Figures and boards *)

N == 8

Rows == 0 .. (N - 1)

Pos == Rows \X Rows

White == "white"

Black == "black"

Colors == {White, Black}

None == [kind |-> "None", color |-> "None", power |-> "None"]

\* The value False returned by move_figure.
False == [kind |-> "False", color |-> "None", power |-> "None"]

\* No call made yet.
NoRequest ==
    [self |-> None, start |-> <<0, 0>>, end |-> <<0, 0>>, is_killer |-> FALSE]

Fig(kind, color) ==
    [kind |-> kind, color |-> color,
     power |-> IF kind = "Demon" THEN "King" ELSE "None"]

Other(color) == IF color = White THEN Black ELSE White

check_pos(end_row, end_col) ==
    0 <= end_row /\ end_row < N /\ 0 <= end_col /\ end_col < N

\* Python list indexing: a negative index counts from the end.
Idx(i) == IF i < 0 THEN i + N ELSE i

get_figure(b, row, col) == b[<<Idx(row), Idx(col)>>]

EmptyBoard == [p \in Pos |-> None]

----------------------------------------------------------------------------
(* Chess figures: get_possible_moves *)

Direction(color) == IF color = White THEN -1 ELSE 1

\* PawnForward with the two-square advance not nested under the one-square
\* test: the pawn leaps over a figure right in front of it.
PawnForwardLeap(b, color, start_row, start_col) ==
    LET direction == Direction(color)
        new_row == start_row + direction
        two_row == start_row + 2 * direction
    IN  (IF check_pos(new_row, start_col)
            /\ get_figure(b, new_row, start_col) = None
         THEN {<<new_row, start_col>>} ELSE {})
        \cup (IF ((color = White /\ start_row = 6)
                   \/ (color = Black /\ start_row = 1))
                 /\ check_pos(two_row, start_col)
                 /\ get_figure(b, two_row, start_col) = None
              THEN {<<two_row, start_col>>}
              ELSE {})

PawnForward(b, color, start_row, start_col) ==
    LET direction == Direction(color)
        new_row == start_row + direction
        two_row == start_row + 2 * direction
    IN  IF check_pos(new_row, start_col)
           /\ get_figure(b, new_row, start_col) = None
        THEN {<<new_row, start_col>>}
             \cup (IF ((color = White /\ start_row = 6)
                        \/ (color = Black /\ start_row = 1))
                      /\ check_pos(two_row, start_col)
                      /\ get_figure(b, two_row, start_col) = None
                   THEN {<<two_row, start_col>>}
                   ELSE {})
        ELSE {}

PawnAttack(b, color, start_row, start_col) ==
    LET new_row == start_row + Direction(color)
    IN  {<<new_row, col>> : col \in
            {c \in {start_col - 1, start_col + 1} :
                /\ check_pos(new_row, c)
                /\ get_figure(b, new_row, c) # None
                /\ get_figure(b, new_row, c).color # color}}

PawnMoves(b, color, start_row, start_col) ==
    PawnForward(b, color, start_row, start_col)
        \cup PawnAttack(b, color, start_row, start_col)

\* Slide without the break after a figure of the other colour: the slide
\* goes on behind a figure it can take.
RECURSIVE SlideThrough(_, _, _, _, _, _)
SlideThrough(b, color, row, col, y, x) ==
    IF ~check_pos(row, col) THEN {}
    ELSE LET piece == get_figure(b, row, col)
         IN  IF piece = None \/ piece.color # color
             THEN {<<row, col>>}
                  \cup SlideThrough(b, color, row + y, col + x, y, x)
             ELSE {}

\* The while loop of Rook and Bishop along one direction (y, x),
\* entered at (row, col).
RECURSIVE Slide(_, _, _, _, _, _)
Slide(b, color, row, col, y, x) ==
    IF ~check_pos(row, col) THEN {}
    ELSE LET piece == get_figure(b, row, col)
         IN  IF piece = None
             THEN {<<row, col>>} \cup Slide(b, color, row + y, col + x, y, x)
             ELSE IF piece.color # color THEN {<<row, col>>} ELSE {}

RookDirections == {<<-1, 0>>, <<1, 0>>, <<0, -1>>, <<0, 1>>}

BishopDirections == {<<-1, -1>>, <<-1, 1>>, <<1, -1>>, <<1, 1>>}

RookMoves(b, color, start_row, start_col) ==
    UNION {Slide(b, color, start_row + d[1], start_col + d[2], d[1], d[2]) :
              d \in RookDirections}

BishopMoves(b, color, start_row, start_col) ==
    UNION {Slide(b, color, start_row + d[1], start_col + d[2], d[1], d[2]) :
              d \in BishopDirections}

QueenMoves(b, color, start_row, start_col) ==
    RookMoves(b, color, start_row, start_col)
        \cup BishopMoves(b, color, start_row, start_col)

\* The loop shared by Knight, King and Spearman over a table of squares.
TableMoves(b, color, table) ==
    {p \in table :
        /\ check_pos(p[1], p[2])
        /\ (get_figure(b, p[1], p[2]) = None
            \/ get_figure(b, p[1], p[2]).color # color)}

KnightMoves(b, color, start_row, start_col) ==
    TableMoves(b, color,
        {<<start_row - 2, start_col - 1>>, <<start_row - 2, start_col + 1>>,
         <<start_row - 1, start_col - 2>>, <<start_row - 1, start_col + 2>>,
         <<start_row + 1, start_col - 2>>, <<start_row + 1, start_col + 2>>,
         <<start_row + 2, start_col - 1>>, <<start_row + 2, start_col + 1>>})

KingMoves(b, color, start_row, start_col) ==
    TableMoves(b, color,
        {<<start_row - 1, start_col - 1>>, <<start_row - 1, start_col>>,
         <<start_row - 1, start_col + 1>>, <<start_row, start_col - 1>>,
         <<start_row, start_col + 1>>, <<start_row + 1, start_col - 1>>,
         <<start_row + 1, start_col>>, <<start_row + 1, start_col + 1>>})

SpearmanMoves(b, color, start_row, start_col) ==
    LET direction == Direction(color)
    IN  TableMoves(b, color,
            {<<start_row + direction, start_col - 1>>,
             <<start_row + direction, start_col>>,
             <<start_row + direction, start_col + 1>>})

\* get_possible_moves of a freshly constructed figure of class `kind`
\* (a fresh Demon has power "King"; Mage inherits Figure's empty list).
ClassMoves(b, kind, color, start_row, start_col) ==
    CASE kind = "Pawn"     -> PawnMoves(b, color, start_row, start_col)
      [] kind = "Rook"     -> RookMoves(b, color, start_row, start_col)
      [] kind = "Knight"   -> KnightMoves(b, color, start_row, start_col)
      [] kind = "Bishop"   -> BishopMoves(b, color, start_row, start_col)
      [] kind = "Queen"    -> QueenMoves(b, color, start_row, start_col)
      [] kind = "King"     -> KingMoves(b, color, start_row, start_col)
      [] kind = "Spearman" -> SpearmanMoves(b, color, start_row, start_col)
      [] kind = "Demon"    -> KingMoves(b, color, start_row, start_col)
      [] OTHER             -> {}

\* DemonMoves with the power left out: always the King pattern.
DemonMovesAsKing(b, figure, start_row, start_col) ==
    KingMoves(b, figure.color, start_row, start_col)

DemonMoves(b, figure, start_row, start_col) ==
    ClassMoves(b, figure.power, figure.color, start_row, start_col)

get_possible_moves(b, figure, start_row, start_col) ==
    IF figure.kind = "Demon"
    THEN DemonMoves(b, figure, start_row, start_col)
    ELSE ClassMoves(b, figure.kind, figure.color, start_row, start_col)

\* is_valid_move without the test for a figure of the mover's colour on the
\* target.
is_valid_move_no_colour_test(b, figure, start_row, start_col, end_row, end_col) ==
    IF ~check_pos(end_row, end_col) THEN FALSE
    ELSE IF <<end_row, end_col>> \notin
               get_possible_moves(b, figure, start_row, start_col)
            /\ figure.kind # "Mage"
         THEN FALSE
         ELSE TRUE

is_valid_move(b, figure, start_row, start_col, end_row, end_col) ==
    IF ~check_pos(end_row, end_col) THEN FALSE
    ELSE LET target_figure == get_figure(b, end_row, end_col)
         IN  IF target_figure # None /\ target_figure.color = figure.color
             THEN FALSE
             ELSE IF <<end_row, end_col>> \notin
                        get_possible_moves(b, figure, start_row, start_col)
                     /\ figure.kind # "Mage"
                  THEN FALSE
                  ELSE TRUE

----------------------------------------------------------------------------
(* Board *)

\* Result of a move_figure call: the returned value (False, None or the
\* captured figure) and the board the call leaves behind.
Outcome(ret, b) == [ret |-> ret, board |-> b]

\* move_figure clearing the origin before it validates the move.
move_figure_partial(b, start_row, start_col, end_row, end_col) ==
    LET figure == get_figure(b, start_row, start_col)
    IN  IF figure = None THEN Outcome(False, b)
        ELSE IF is_valid_move(b, figure, start_row, start_col, end_row, end_col)
             THEN LET captured_figure == get_figure(b, end_row, end_col)
                  IN  Outcome(captured_figure,
                              [b EXCEPT ![<<end_row, end_col>>] = figure,
                                        ![<<start_row, start_col>>] = None])
             ELSE Outcome(False, [b EXCEPT ![<<start_row, start_col>>] = None])

move_figure(b, start_row, start_col, end_row, end_col) ==
    LET figure == get_figure(b, start_row, start_col)
    IN  IF figure = None THEN Outcome(False, b)
        ELSE IF is_valid_move(b, figure, start_row, start_col, end_row, end_col)
             THEN LET captured_figure == get_figure(b, end_row, end_col)
                  IN  Outcome(captured_figure,
                              [b EXCEPT ![<<end_row, end_col>>] = figure,
                                        ![<<start_row, start_col>>] = None])
             ELSE Outcome(False, b)

BackRank == <<"Rook", "Knight", "Bishop", "Queen", "King", "Bishop", "Knight", "Rook">>

ClassicBoard ==
    [p \in Pos |->
        CASE p[1] = 7 -> Fig(BackRank[p[2] + 1], White)
          [] p[1] = 6 -> Fig("Pawn", White)
          [] p[1] = 0 -> Fig(BackRank[p[2] + 1], Black)
          [] p[1] = 1 -> Fig("Pawn", Black)
          [] OTHER    -> None]

NewBackRank == <<"Rook", "Knight", "Bishop", "Mage", "King", "Bishop", "Knight", "Rook">>

NewBoard ==
    [p \in Pos |->
        CASE p[1] = 7 -> Fig(NewBackRank[p[2] + 1], White)
          [] p[1] = 6 -> Fig("Spearman", White)
          [] p = <<4, 6>> -> Fig("Demon", White)
          [] p[1] = 0 -> Fig(NewBackRank[p[2] + 1], Black)
          [] p[1] = 1 -> Fig("Spearman", Black)
          [] p = <<3, 1>> -> Fig("Demon", Black)
          [] OTHER    -> None]

----------------------------------------------------------------------------
(* Game: the chess controller *)

\* Move with origin and target stored the wrong way round.
MoveSwapped(start_row, start_col, end_row, end_col, captured_figure) ==
    [start_row |-> end_row, start_col |-> end_col,
     end_row |-> start_row, end_col |-> start_col,
     captured_figure |-> captured_figure]

Move(start_row, start_col, end_row, end_col, captured_figure) ==
    [start_row |-> start_row, start_col |-> start_col,
     end_row |-> end_row, end_col |-> end_col,
     captured_figure |-> captured_figure]

SwitchTurn(turn) == IF turn = White THEN Black ELSE White

\* The state Game.undo_move works on and leaves behind.
GameState(b, turn, count, log) ==
    [board |-> b, current_turn |-> turn, move_count |-> count, moves |-> log]

\* undo_move without the decrement of move_count.
undo_move_keeps_count(g) ==
    IF g.moves # <<>>
    THEN LET last_move == g.moves[Len(g.moves)]
             moved == get_figure(g.board, last_move.end_row, last_move.end_col)
         IN  GameState(
                [g.board EXCEPT
                    ![<<last_move.start_row, last_move.start_col>>] = moved,
                    ![<<last_move.end_row, last_move.end_col>>] =
                        last_move.captured_figure],
                SwitchTurn(g.current_turn),
                g.move_count,
                SubSeq(g.moves, 1, Len(g.moves) - 1))
    ELSE g

undo_move(g) ==
    IF g.moves # <<>>
    THEN LET last_move == g.moves[Len(g.moves)]
             moved == get_figure(g.board, last_move.end_row, last_move.end_col)
         IN  GameState(
                [g.board EXCEPT
                    ![<<last_move.start_row, last_move.start_col>>] = moved,
                    ![<<last_move.end_row, last_move.end_col>>] =
                        last_move.captured_figure],
                SwitchTurn(g.current_turn),
                g.move_count - 1,
                SubSeq(g.moves, 1, Len(g.moves) - 1))
    ELSE g

\* play_move switching the turn before it looks for a captured King.
play_move_switch_first(g, start_row, start_col, end_row, end_col) ==
    LET figure == get_figure(g.board, start_row, start_col)
        out == move_figure(g.board, start_row, start_col, end_row, end_col)
        captured_figure == out.ret
    IN  IF captured_figure = False
        THEN [game |-> g, over |-> FALSE, ret |-> False]
        ELSE LET move == Move(start_row, start_col, end_row, end_col,
                              captured_figure)
                 b2 == IF figure.kind = "Demon" /\ captured_figure # None
                       THEN [out.board EXCEPT
                               ![<<end_row, end_col>>].power =
                                   captured_figure.kind]
                       ELSE out.board
                 over == captured_figure.kind = "King"
             IN  [game |-> GameState(b2,
                              SwitchTurn(g.current_turn),
                              g.move_count + 1,
                              Append(g.moves, move)),
                  over |-> over,
                  ret |-> captured_figure]

\* The part of one iteration of Game.play that follows the inputs: figure
\* chosen at (start_row, start_col), target (end_row, end_col).
\* Yields the new game state plus the flags over (loop left) and ret.
play_move(g, start_row, start_col, end_row, end_col) ==
    LET figure == get_figure(g.board, start_row, start_col)
        out == move_figure(g.board, start_row, start_col, end_row, end_col)
        captured_figure == out.ret
    IN  IF captured_figure = False
        THEN [game |-> g, over |-> FALSE, ret |-> False]
        ELSE LET move == Move(start_row, start_col, end_row, end_col,
                              captured_figure)
                 b2 == IF figure.kind = "Demon" /\ captured_figure # None
                       THEN [out.board EXCEPT
                               ![<<end_row, end_col>>].power =
                                   captured_figure.kind]
                       ELSE out.board
                 over == captured_figure.kind = "King"
             IN  [game |-> GameState(b2,
                              IF over THEN g.current_turn
                                      ELSE SwitchTurn(g.current_turn),
                              g.move_count + 1,
                              Append(g.moves, move)),
                  over |-> over,
                  ret |-> captured_figure]

\* A scripted game: play_move applied to each <<origin, target>> in turn.
RECURSIVE ReplayChess(_, _)
ReplayChess(g, ms) ==
    IF ms = <<>> THEN g
    ELSE ReplayChess(
            play_move(g, ms[1][1][1], ms[1][1][2], ms[1][2][1], ms[1][2][2]).game,
            Tail(ms))

\* e2-e4 f7-f6, Qd1-h5 a7-a6: the white queen attacks the black king.
ClassicOpenings ==
    {<< >>,
     << <<<<6, 4>>, <<4, 4>>>>, <<<<1, 5>>, <<2, 5>>>>,
        <<<<7, 3>>, <<3, 7>>>>, <<<<1, 0>>, <<2, 0>>>> >>}

\* The white Mage is thrown next to the black Demon; a black Knight comes
\* next to the white Demon, which takes it (a2-a3 Ng8-h6, a3-a4 Nh6-f5,
\* Dg4xf5 a7-a6).
SpecialOpenings ==
    {<< >>,
     << <<<<7, 3>>, <<2, 1>>>> >>,
     << <<<<6, 0>>, <<5, 0>>>>, <<<<0, 6>>, <<2, 7>>>>,
        <<<<5, 0>>, <<4, 0>>>>, <<<<2, 7>>, <<3, 5>>>>,
        <<<<4, 6>>, <<3, 5>>>>, <<<<1, 0>>, <<2, 0>>>> >>}

Current == GameState(board, current_turn, move_count, moves)

IsChess == mode \in {"classic", "special"}

\* Selectable without the test of the colour: any figure can be chosen.
SelectableAnyColour(p) ==
    board[p] # None

\* choose_figure accepts the square: it holds a figure of the side to move.
Selectable(p) ==
    /\ board[p] # None
    /\ board[p].color = current_turn

\* Game.play, command "undo".
Undo ==
    /\ IsChess /\ ~game_over
    /\ plies <= MaxPly
    /\ LET g == undo_move(Current)
       IN  /\ board' = g.board
           /\ current_turn' = g.current_turn
           /\ move_count' = g.move_count
           /\ moves' = g.moves
    /\ last' = IF moves # <<>> THEN "undo" ELSE "nothing_to_undo"
    /\ plies' = IF moves # <<>> THEN plies + 1 ELSE plies
    /\ UNCHANGED request
    /\ UNCHANGED <<mode, game_over, winner, pc, start, is_killer, hints>>

\* choose_figure (either game) turns down a square that is empty or holds a
\* figure of the other side, and asks again.
ChooseRefused(p) ==
    /\ mode \in {"classic", "special", "checkers"}
    /\ ~game_over /\ pc = "select"
    /\ ~Selectable(p)
    /\ last' = "refused"
    /\ UNCHANGED request
    /\ UNCHANGED <<mode, board, current_turn, move_count, moves, game_over,
                   winner, pc, start, is_killer, hints, plies>>

\* The squares tried for a refusal: one empty square and one square holding
\* a figure of the side that is not to move.
RefusedSquares ==
    LET empty == {p \in Pos : board[p] = None}
        theirs == {p \in Pos : board[p] # None /\ board[p].color # current_turn}
    IN  (IF empty = {} THEN {} ELSE {CHOOSE p \in empty : TRUE})
           \cup (IF theirs = {} THEN {} ELSE {CHOOSE p \in theirs : TRUE})

\* The targets tried for the figure at s: every square the hints show (every
\* square of the board for a Mage, whose target is drawn by randint), and the
\* figure's own square as a target that is not among the hints.
Targets(b, s) ==
    IF b[s].kind = "Mage" THEN Pos
    ELSE get_possible_moves(b, b[s], s[1], s[2]) \cup {s}

\* Game.play, command "select": the figure at s, target e.
Play(s, e) ==
    /\ IsChess /\ ~game_over
    /\ Selectable(s)
    /\ plies < MaxPly
    /\ LET r == play_move(Current, s[1], s[2], e[1], e[2])
       IN  /\ board' = r.game.board
           /\ current_turn' = r.game.current_turn
           /\ move_count' = r.game.move_count
           /\ moves' = r.game.moves
           /\ game_over' = r.over
           /\ winner' = IF r.over THEN current_turn ELSE winner
           /\ last' = CASE r.ret = False -> "rejected"
                        [] r.over        -> "game_over"
                        [] r.ret = None  -> "moved"
                        [] OTHER         -> "captured"
           /\ plies' = IF r.ret = False THEN plies ELSE plies + 1
    /\ UNCHANGED request
    /\ UNCHANGED <<mode, pc, start, is_killer, hints>>

InitChess ==
    /\ mode \in {"classic", "special"}
    /\ \E opening \in (IF mode = "classic" THEN ClassicOpenings
                                           ELSE SpecialOpenings) :
         LET g == ReplayChess(
                    GameState(IF mode = "classic" THEN ClassicBoard ELSE NewBoard,
                              White, 2, <<>>),
                    opening)
         IN  /\ board = g.board
             /\ current_turn = g.current_turn
             /\ move_count = g.move_count
             /\ moves = g.moves
    /\ game_over = FALSE
    /\ winner = "None"
    /\ pc = "select"
    /\ start = <<0, 0>>
    /\ is_killer = FALSE
    /\ last = "start"
    /\ hints = {}
    /\ plies = 0
    /\ request = NoRequest

NextChess ==
    \/ Undo
    \/ \E p \in RefusedSquares : ChooseRefused(p)
    \/ \E s \in {p \in Pos : plies < MaxPly /\ Selectable(p)} :
          \E e \in Targets(board, s) : Play(s, e)

SpecChess == InitChess /\ [][NextChess]_vars

----------------------------------------------------------------------------
(* Checkers figures *)

\* Diagonals with the two directions along a column added.
DiagonalsAndColumn ==
    {<<1, 1>>, <<1, -1>>, <<-1, 1>>, <<-1, -1>>, <<1, 0>>, <<-1, 0>>}

\* The four directions both get_possible_moves go through.
Diagonals == {<<1, 1>>, <<1, -1>>, <<-1, 1>>, <<-1, -1>>}

\* First loop of Checker.get_possible_moves: the jumps over an adjacent
\* figure of the other colour onto an empty square.
CheckerJumps(b, color, start_row, start_col) ==
    {<<start_row + 2 * d[1], start_col + 2 * d[2]>> : d \in
        {dd \in Diagonals :
            /\ check_pos(start_row + dd[1], start_col + dd[2])
            /\ get_figure(b, start_row + dd[1], start_col + dd[2]) # None
            /\ get_figure(b, start_row + dd[1], start_col + dd[2]).color # color
            /\ check_pos(start_row + 2 * dd[1], start_col + 2 * dd[2])
            /\ get_figure(b, start_row + 2 * dd[1], start_col + 2 * dd[2]) = None}}

\* CheckerSteps without the check_pos test.
CheckerStepsUnchecked(color, start_row, start_col) ==
    LET dir == Direction(color)
    IN  {<<start_row + dir, start_col + 1>>, <<start_row + dir, start_col - 1>>}

\* Second loop of Checker.get_possible_moves: one step forward on either
\* diagonal, whatever stands there.
CheckerSteps(color, start_row, start_col) ==
    LET dir == Direction(color)
    IN  {p \in {<<start_row + dir, start_col + 1>>,
                <<start_row + dir, start_col - 1>>} : check_pos(p[1], p[2])}

CheckerMoves(b, color, start_row, start_col, killer) ==
    LET jumps == CheckerJumps(b, color, start_row, start_col)
    IN  IF ~(killer \/ jumps # {})
        THEN jumps \cup CheckerSteps(color, start_row, start_col)
        ELSE jumps

\* KingSlide jumping over a figure of either colour.
RECURSIVE KingSlideAnyColour(_, _, _, _, _, _)
KingSlideAnyColour(b, color, row, col, dr, dc) ==
    IF ~check_pos(row, col) THEN {}
    ELSE LET piece == get_figure(b, row, col)
         IN  IF piece = None
             THEN {<<row, col>>}
                     \cup KingSlideAnyColour(b, color, row + dr, col + dc, dr, dc)
             ELSE IF /\ check_pos(row + dr, col + dc)
                     /\ get_figure(b, row + dr, col + dc) = None
                  THEN {<<row + dr, col + dc>>}
                  ELSE {}

\* The while loop of KingChecker.get_possible_moves along one diagonal
\* (dr, dc), entered at (row, col).
RECURSIVE KingSlide(_, _, _, _, _, _)
KingSlide(b, color, row, col, dr, dc) ==
    IF ~check_pos(row, col) THEN {}
    ELSE LET piece == get_figure(b, row, col)
         IN  IF piece = None
             THEN {<<row, col>>} \cup KingSlide(b, color, row + dr, col + dc, dr, dc)
             ELSE IF /\ piece.color # color
                     /\ check_pos(row + dr, col + dc)
                     /\ get_figure(b, row + dr, col + dc) = None
                  THEN {<<row + dr, col + dc>>}
                  ELSE {}

KingCheckerMoves(b, color, start_row, start_col, killer) ==
    UNION {KingSlide(b, color, start_row + d[1], start_col + d[2], d[1], d[2]) :
              d \in Diagonals}

\* get_possible_moves of the checkers figures (four arguments).
checker_possible_moves(b, figure, start_row, start_col, killer) ==
    IF figure.kind = "KingChecker"
    THEN KingCheckerMoves(b, figure.color, start_row, start_col, killer)
    ELSE CheckerMoves(b, figure.color, start_row, start_col, killer)

checker_is_valid_move(b, figure, start_row, start_col, end_row, end_col, killer) ==
    IF ~check_pos(end_row, end_col) THEN FALSE
    ELSE IF get_figure(b, end_row, end_col) # None THEN FALSE
    ELSE IF <<end_row, end_col>> \notin
              checker_possible_moves(b, figure, start_row, start_col, killer)
         THEN FALSE
         ELSE TRUE

----------------------------------------------------------------------------
(* CheckersBoard *)

CheckersInitialBoard ==
    [p \in Pos |->
        IF (p[1] + p[2]) % 2 = 1
        THEN (IF p[1] < 3 THEN Fig("Checker", Black)
              ELSE IF p[1] > 4 THEN Fig("Checker", White)
              ELSE None)
        ELSE None]

\* Promote testing the row only: row 0 for both colours.
PromoteOnRowZero(figure, end_row) ==
    IF end_row = 0 THEN Fig("KingChecker", figure.color) ELSE figure

\* The promotion test at the end of move_figure: what ends on the target
\* square.
Promote(figure, end_row) ==
    IF (figure.color = White /\ end_row = 0)
       \/ (figure.color = Black /\ end_row = 7)
    THEN Fig("KingChecker", figure.color)
    ELSE figure

\* move_figure taking the figure off the square next to the origin instead of
\* the one next to the target.
checkers_move_figure_near_origin(b, start_row, start_col, end_row, end_col, killer) ==
    LET figure == get_figure(b, start_row, start_col)
    IN  IF figure = None THEN Outcome(False, b)
        ELSE IF checker_is_valid_move(b, figure, start_row, start_col,
                                      end_row, end_col, killer)
        THEN LET delta_row == end_row - start_row
                 delta_col == end_col - start_col
                 dr == IF delta_row > 0 THEN 1 ELSE -1
                 dc == IF delta_col > 0 THEN 1 ELSE -1
                 jump == delta_row >= 2 \/ delta_row <= -2
                 captured_figure ==
                     IF jump THEN get_figure(b, start_row + dr, start_col + dc)
                     ELSE None
                 b1 == IF jump
                       THEN [b EXCEPT ![<<start_row + dr, start_col + dc>>] = None]
                       ELSE b
                 b2 == [b1 EXCEPT ![<<end_row, end_col>>] = figure,
                                  ![<<start_row, start_col>>] = None]
                 b3 == [b2 EXCEPT ![<<end_row, end_col>>] =
                                       Promote(figure, end_row)]
             IN  Outcome(captured_figure, b3)
        ELSE Outcome(False, b)

checkers_move_figure(b, start_row, start_col, end_row, end_col, killer) ==
    LET figure == get_figure(b, start_row, start_col)
    IN  IF figure = None THEN Outcome(False, b)
        ELSE IF checker_is_valid_move(b, figure, start_row, start_col,
                                      end_row, end_col, killer)
        THEN LET delta_row == end_row - start_row
                 delta_col == end_col - start_col
                 dr == IF delta_row > 0 THEN 1 ELSE -1
                 dc == IF delta_col > 0 THEN 1 ELSE -1
                 jump == delta_row >= 2 \/ delta_row <= -2
                 captured_figure ==
                     IF jump THEN get_figure(b, end_row - dr, end_col - dc)
                     ELSE None
                 b1 == IF jump
                       THEN [b EXCEPT ![<<end_row - dr, end_col - dc>>] = None]
                       ELSE b
                 b2 == [b1 EXCEPT ![<<end_row, end_col>>] = figure,
                                  ![<<start_row, start_col>>] = None]
                 b3 == [b2 EXCEPT ![<<end_row, end_col>>] =
                                       Promote(figure, end_row)]
             IN  Outcome(captured_figure, b3)
        ELSE Outcome(False, b)

----------------------------------------------------------------------------
(* CheckersGame: the checkers controller *)

\* The state CheckersGame.play works on: the game's fields, the locals
\* start_row/start_col and is_killer, and where the loop waits (pc).
CheckersState(b, turn, count, p, s, k) ==
    [board |-> b, current_turn |-> turn, move_count |-> count,
     pc |-> p, start |-> s, is_killer |-> k]

\* LoopTop asking for a target whatever the hints are.
LoopTopAlwaysAsks(g) ==
    [g EXCEPT !.pc = "target"]

\* Top of the inner loop of CheckersGame.play: the hints of the figure at
\* start; without any, the turn ends, otherwise a target is asked for.
LoopTop(g) ==
    LET figure == get_figure(g.board, g.start[1], g.start[2])
        possible == checker_possible_moves(g.board, figure, g.start[1],
                                           g.start[2], g.is_killer)
    IN  IF possible # {}
        THEN [g EXCEPT !.pc = "target"]
        ELSE [g EXCEPT !.move_count = @ + 1,
                       !.current_turn = SwitchTurn(@),
                       !.pc = "select"]

\* choose_figure returned ("select", start_row, start_col).
checkers_select(g, s) ==
    LoopTop([g EXCEPT !.start = s, !.is_killer = FALSE])

\* get_target_position returned (end_row, end_col).
checkers_target(g, e) ==
    LET out == checkers_move_figure(g.board, g.start[1], g.start[2],
                                    e[1], e[2], g.is_killer)
        captured_figure == out.ret
    IN  IF captured_figure = False THEN LoopTop(g)
        ELSE IF captured_figure # None
        THEN LoopTop([g EXCEPT !.board = out.board,
                               !.start = e,
                               !.is_killer = TRUE])
        ELSE [g EXCEPT !.board = out.board,
                       !.move_count = @ + 1,
                       !.current_turn = SwitchTurn(@),
                       !.pc = "select"]

\* A scripted game: each input is the answer to the prompt the loop waits at.
RECURSIVE ReplayCheckers(_, _)
ReplayCheckers(g, inputs) ==
    IF inputs = <<>> THEN g
    ELSE ReplayCheckers(
            IF g.pc = "select" THEN checkers_select(g, inputs[1])
                               ELSE checkers_target(g, inputs[1]),
            Tail(inputs))

\* Scripted games (flat lists of inputs) from the initial layout, each
\* stopping where a turn begins: before a double jump of a plain checker,
\* before a jump that promotes and goes on, before a jump onto the last row,
\* before a king's jump, before a step onto the last row; the last two are
\* white's jump and step onto row 0, followed by one that leaves black with
\* a KingChecker on row 7 shut in by white figures.
CheckersOpenings ==
    {<< >>,
     <<<<5, 6>>, <<4, 5>>, <<2, 5>>, <<3, 6>>, <<5, 4>>, <<4, 3>>>>,
     <<<<5, 4>>, <<4, 3>>, <<2, 3>>, <<3, 2>>, <<6, 5>>, <<5, 4>>, <<3, 2>>,
       <<4, 1>>, <<7, 6>>, <<6, 5>>, <<2, 7>>, <<3, 6>>, <<5, 4>>, <<4, 5>>>>,
     <<<<5, 4>>, <<4, 5>>, <<2, 7>>, <<3, 6>>, <<5, 6>>, <<4, 7>>, <<3, 6>>,
       <<5, 4>>, <<6, 7>>, <<5, 6>>, <<2, 3>>, <<3, 4>>, <<7, 6>>, <<6, 7>>>>,
     <<<<5, 4>>, <<4, 3>>, <<2, 7>>, <<3, 6>>, <<6, 3>>, <<5, 4>>, <<2, 1>>,
       <<3, 0>>, <<5, 6>>, <<4, 5>>, <<2, 5>>, <<3, 4>>, <<5, 2>>, <<4, 1>>,
       <<3, 4>>, <<5, 6>>, <<7, 4>>, <<6, 3>>>>,
     <<<<5, 6>>, <<4, 5>>, <<2, 1>>, <<3, 2>>, <<5, 2>>, <<4, 1>>, <<2, 3>>,
       <<3, 4>>, <<4, 5>>, <<2, 3>>, <<2, 7>>, <<3, 6>>, <<6, 3>>, <<5, 2>>,
       <<3, 6>>, <<4, 5>>, <<6, 5>>, <<5, 6>>, <<4, 5>>, <<6, 3>>, <<7, 4>>,
       <<6, 5>>>>,
     <<<<5, 6>>, <<4, 7>>, <<2, 3>>, <<3, 2>>, <<5, 2>>, <<4, 1>>, <<1, 2>>,
       <<2, 3>>, <<6, 1>>, <<5, 2>>, <<0, 1>>, <<1, 2>>, <<5, 2>>, <<4, 3>>,
       <<2, 3>>, <<3, 4>>>>,
     <<<<5, 4>>, <<4, 5>>, <<2, 5>>, <<3, 6>>, <<5, 2>>, <<4, 1>>, <<2, 3>>,
       <<3, 4>>, <<6, 5>>, <<5, 4>>, <<1, 2>>, <<2, 3>>, <<4, 1>>, <<3, 2>>,
       <<1, 4>>, <<2, 5>>, <<3, 2>>, <<1, 4>>, <<0, 3>>, <<1, 2>>>>,
     <<<<5, 2>>, <<4, 1>>, <<2, 5>>, <<3, 4>>, <<6, 1>>, <<5, 2>>, <<1, 4>>,
       <<2, 5>>, <<5, 4>>, <<4, 5>>, <<3, 4>>, <<4, 3>>, <<6, 3>>, <<5, 4>>,
       <<4, 3>>, <<6, 1>>, <<7, 2>>, <<6, 3>>, <<6, 1>>, <<7, 2>>, <<7, 0>>,
       <<6, 1>>>>}

CurrentCheckers ==
    CheckersState(board, current_turn, move_count, pc, start, is_killer)

SetCheckers(g) ==
    /\ board' = g.board
    /\ current_turn' = g.current_turn
    /\ move_count' = g.move_count
    /\ pc' = g.pc
    /\ start' = g.start
    /\ is_killer' = g.is_killer

\* CheckersGame.play, the player picks the figure at s.
CheckersSelect(s) ==
    /\ mode = "checkers" /\ pc = "select"
    /\ Selectable(s)
    /\ plies < MaxPly
    /\ LET g == checkers_select(CurrentCheckers, s)
       IN  /\ SetCheckers(g)
           /\ last' = IF g.pc = "select" THEN "pass" ELSE "selected"
    /\ plies' = plies + 1
    /\ UNCHANGED request
    /\ UNCHANGED <<mode, moves, game_over, winner, hints>>

\* CheckersGame.play, the player enters the target e.
CheckersTarget(e) ==
    /\ mode = "checkers" /\ pc = "target"
    /\ LET out == checkers_move_figure(board, start[1], start[2],
                                       e[1], e[2], is_killer)
           g == checkers_target(CurrentCheckers, e)
       IN  /\ SetCheckers(g)
           /\ last' = CASE out.ret = False -> "rejected"
                        [] out.ret = None  -> "moved"
                        [] OTHER           -> "captured"
    /\ UNCHANGED request
    /\ UNCHANGED <<mode, moves, game_over, winner, hints, plies>>

\* CheckersGame.play, command "undo": choose_figure returns (undo, None,
\* None) and board.get_figure(None, None) raises TypeError.
CheckersUndo ==
    /\ mode = "checkers" /\ pc = "select"
    /\ pc' = "crashed"
    /\ last' = "crash"
    /\ UNCHANGED request
    /\ UNCHANGED <<mode, board, current_turn, move_count, moves, game_over,
                   winner, start, is_killer, hints, plies>>

\* The targets tried at the prompt: the hinted squares and the figure's own
\* square as one that is not hinted.
CheckersTargets ==
    checker_possible_moves(board, board[start], start[1], start[2], is_killer)
        \cup {start}

InitCheckers ==
    /\ mode = "checkers"
    /\ \E opening \in CheckersOpenings :
         LET g == ReplayCheckers(
                    CheckersState(CheckersInitialBoard, White, 2, "select",
                                  <<0, 0>>, FALSE),
                    opening)
         IN  /\ board = g.board
             /\ current_turn = g.current_turn
             /\ move_count = g.move_count
             /\ pc = g.pc
             /\ start = g.start
             /\ is_killer = g.is_killer
    /\ moves = <<>>
    /\ game_over = FALSE
    /\ winner = "None"
    /\ last = "start"
    /\ hints = {}
    /\ plies = 0
    /\ request = NoRequest

NextCheckers ==
    \/ CheckersUndo
    \/ \E p \in RefusedSquares : ChooseRefused(p)
    \/ \E s \in Pos : CheckersSelect(s)
    \/ \E e \in CheckersTargets : CheckersTarget(e)

SpecCheckers == InitCheckers /\ [][NextCheckers]_vars

----------------------------------------------------------------------------
(* The figures and the two boards on their own: one figure under test at    *)
(* `start`, other figures put around it, then the figure's destinations     *)
(* are computed.                                                            *)

ChessKinds == {"Pawn", "Rook", "Knight", "Bishop", "Queen", "King", "Mage",
               "Spearman", "Demon"}

CheckersKinds == {"Checker", "KingChecker"}

\* The class names a Demon can take over on the special board.
DemonPowers == {"Rook", "Knight", "Bishop", "King", "Mage", "Spearman", "Demon"}

TestFigures ==
    {Fig(k, c) : k \in ChessKinds \cup CheckersKinds, c \in Colors}
        \cup {[kind |-> "Demon", color |-> c, power |-> p] :
                 c \in Colors, p \in DemonPowers}

IsCheckers(figure) == figure.kind \in CheckersKinds

\* get_possible_moves of whichever class the figure belongs to.
Destinations(b, figure, s, killer) ==
    IF IsCheckers(figure)
    THEN checker_possible_moves(b, figure, s[1], s[2], killer)
    ELSE get_possible_moves(b, figure, s[1], s[2])

\* is_valid_move of whichever class the figure belongs to.
Valid(b, figure, s, e, killer) ==
    IF IsCheckers(figure)
    THEN checker_is_valid_move(b, figure, s[1], s[2], e[1], e[2], killer)
    ELSE is_valid_move(b, figure, s[1], s[2], e[1], e[2])

\* move_figure of Board or CheckersBoard, by the family of the figure under
\* test.
BoardMove(b, checkers, s, e, killer) ==
    IF checkers
    THEN checkers_move_figure(b, s[1], s[2], e[1], e[2], killer)
    ELSE move_figure(b, s[1], s[2], e[1], e[2])

Sgn(i) == IF i > 0 THEN 1 ELSE IF i < 0 THEN -1 ELSE 0

Abs(i) == IF i < 0 THEN -i ELSE i

Dist(p, q) ==
    IF Abs(p[1] - q[1]) > Abs(p[2] - q[2]) THEN Abs(p[1] - q[1])
    ELSE Abs(p[2] - q[2])

\* The square next to p on the side of `start`.
Toward(p) == <<p[1] - Sgn(p[1] - start[1]), p[2] - Sgn(p[2] - start[2])>>

\* The squares figures are put on.
Around == {p \in Pos : p # start /\ Dist(p, start) < MaxDist + MaxBlockers}

\* A figure is put on an empty square: the first one anywhere within MaxDist
\* of the figure under test, a further one right behind one already there
\* (plies counts the figures put).  The destinations of the figure under
\* test are then computed, as play() does for display.
PutFigure(p, color) ==
    /\ mode = "pieces"
    /\ plies < MaxBlockers
    /\ p # start /\ board[p] = None
    /\ IF plies = 0 THEN Dist(p, start) <= MaxDist
       ELSE Toward(p) # start /\ board[Toward(p)] # None
    /\ LET b == [board EXCEPT ![p] =
                    Fig(IF IsCheckers(board[start]) THEN "Checker" ELSE "Knight",
                        color)]
       IN  /\ board' = b
           /\ hints' = Destinations(b, b[start], start, is_killer)
    /\ plies' = plies + 1
    /\ last' = "hints"
    /\ UNCHANGED request
    /\ UNCHANGED <<mode, current_turn, move_count, moves, game_over, winner,
                   pc, start, is_killer>>

\* The destinations of the figure under test, alone on the board.
ShowHints ==
    /\ mode = "pieces" /\ last = "start"
    /\ hints' = Destinations(board, board[start], start, is_killer)
    /\ last' = "hints"
    /\ UNCHANGED request
    /\ UNCHANGED <<mode, board, current_turn, move_count, moves, game_over,
                   winner, pc, start, is_killer, plies>>

InitPieces ==
    /\ mode = "pieces"
    /\ start \in Pos
    /\ \E figure \in TestFigures : board = [EmptyBoard EXCEPT ![start] = figure]
    /\ is_killer \in (IF IsCheckers(board[start]) THEN BOOLEAN ELSE {FALSE})
    /\ current_turn = board[start].color
    /\ move_count = 2
    /\ moves = <<>>
    /\ game_over = FALSE
    /\ winner = "None"
    /\ pc = "select"
    /\ last = "start"
    /\ hints = {}
    /\ plies = 0
    /\ request = NoRequest

NextPieces ==
    \/ \E p \in Around, color \in Colors : PutFigure(p, color)
    \/ ShowHints

SpecPieces == InitPieces /\ [][NextPieces]_vars

----------------------------------------------------------------------------
(* Calls made directly on a figure or a board, with coordinates that may   *)
(* lie off the board: get_possible_moves, is_valid_move and move_figure    *)
(* take any integers, only the controllers' prompts keep them in range.    *)

\* How far off the board the coordinates of a call may lie.
MaxOff == 2

Coords == (0 - MaxOff) .. (N - 1 + MaxOff)

\* The coordinate pairs with a row or a column outside 0 .. 7.
OffBoard == (Coords \X Coords) \ Pos

\* The boards the calls are made on: the layouts of the three games and
\* the boards the scripted openings lead to.
RequestBoards ==
    {ReplayChess(GameState(ClassicBoard, White, 2, <<>>), o).board :
        o \in ClassicOpenings}
    \cup {ReplayChess(GameState(NewBoard, White, 2, <<>>), o).board :
             o \in SpecialOpenings}
    \cup {ReplayCheckers(CheckersState(CheckersInitialBoard, White, 2,
                                       "select", <<0, 0>>, FALSE), o).board :
             o \in CheckersOpenings}

\* The squares holding a figure, while no call has been made yet.
Callable == {p \in Pos : last = "start" /\ board[p] # None}

Killers(figure) == IF IsCheckers(figure) THEN BOOLEAN ELSE {FALSE}

\* figure.get_possible_moves(board, start_row, start_col[, is_killer])
\* asked from the origin o.
RequestDestinations(figure, o, killer) ==
    /\ mode = "requests" /\ last = "start"
    /\ request' = [self |-> figure, start |-> o, end |-> o,
                   is_killer |-> killer]
    /\ hints' = Destinations(board, figure, o, killer)
    /\ last' = "destinations"
    /\ UNCHANGED <<mode, board, current_turn, move_count, moves, game_over,
                   winner, pc, start, is_killer, plies>>

\* figure.is_valid_move(board, start_row, start_col, end_row, end_col[,
\* is_killer]) for the figure standing on s and the target e.
RequestValid(s, e, killer) ==
    /\ mode = "requests" /\ last = "start"
    /\ request' = [self |-> board[s], start |-> s, end |-> e,
                   is_killer |-> killer]
    /\ last' = IF Valid(board, board[s], s, e, killer) THEN "valid"
               ELSE "invalid"
    /\ UNCHANGED <<mode, board, current_turn, move_count, moves, game_over,
                   winner, pc, start, is_killer, hints, plies>>

\* board.move_figure(start_row, start_col, end_row, end_col[, is_killer])
\* from the occupied square s to a target e off the board.
RequestMove(s, e, killer) ==
    /\ mode = "requests" /\ last = "start"
    /\ request' = [self |-> board[s], start |-> s, end |-> e,
                   is_killer |-> killer]
    /\ LET out == BoardMove(board, IsCheckers(board[s]), s, e, killer)
       IN  /\ board' = out.board
           /\ last' = CASE out.ret = False -> "rejected"
                        [] out.ret = None  -> "moved"
                        [] OTHER           -> "captured"
    /\ UNCHANGED <<mode, current_turn, move_count, moves, game_over, winner,
                   pc, start, is_killer, hints, plies>>

InitRequests ==
    /\ mode = "requests"
    /\ board \in RequestBoards
    /\ current_turn = White
    /\ move_count = 2
    /\ moves = <<>>
    /\ game_over = FALSE
    /\ winner = "None"
    /\ pc = "select"
    /\ start = <<0, 0>>
    /\ is_killer = FALSE
    /\ last = "start"
    /\ hints = {}
    /\ plies = 0
    /\ request = NoRequest

\* The figures of a board are asked from their own square and from the
\* squares off the board, and a KingChecker of either colour, which reads
\* the board but not its own square, from every square; the targets tested
\* are the squares off the board and the figure's destinations.
NextRequests ==
    \/ \E s \in Callable : \E k \in Killers(board[s]) :
          \E o \in OffBoard \cup {s} : RequestDestinations(board[s], o, k)
    \/ \E o \in {p \in Pos : last = "start"} : \E c \in Colors, k \in BOOLEAN :
          RequestDestinations(Fig("KingChecker", c), o, k)
    \/ \E s \in Callable : \E k \in Killers(board[s]) :
          \E e \in OffBoard \cup Destinations(board, board[s], s, k) :
              RequestValid(s, e, k)
    \/ \E s \in Callable : \E k \in Killers(board[s]) :
          \E e \in OffBoard : RequestMove(s, e, k)

SpecRequests == InitRequests /\ [][NextRequests]_vars

----------------------------------------------------------------------------
(* Both controllers *)

Init == InitChess \/ InitCheckers

Next == NextChess \/ NextCheckers

Spec == Init /\ [][Next]_vars

----------------------------------------------------------------------------
(* Properties of the chess controller (SpecChess) *)

\* The step is a move the controller applied without leaving its loop.
AppliedPly == Len(moves') = Len(moves) + 1 /\ ~game_over'

UndoStep == Len(moves') = Len(moves) - 1

\* C1: applying an accepted move and undoing it at once gives back the state
\* before the move: all 64 cells (kind, colour and a Demon's power),
\* current_turn, move_count and the undo log.
C1_UndoRestoresState ==
    [][AppliedPly =>
          undo_move(GameState(board', current_turn', move_count', moves'))
              = Current]_vars

\* C2: a move that captures a King ends the game; the winner is the colour
\* that moved, the turn is not switched, and nothing changes afterwards.
C2_KingCaptureEndsGame ==
    [][/\ (Len(moves') = Len(moves) + 1
            /\ moves'[Len(moves')].captured_figure.kind = "King")
           => (game_over' /\ winner' = current_turn
               /\ current_turn' = current_turn)
       /\ game_over => UNCHANGED <<board, current_turn, move_count, moves,
                                   game_over, winner>>]_vars

C2_Witness ==
    /\ game_over /\ last = "game_over"
    /\ winner = current_turn
    /\ moves[Len(moves)].captured_figure.kind = "King"

\* C4: an applied ply that does not end the game flips current_turn once
\* and adds one half move; an undo with a non-empty log flips current_turn
\* and takes one half move off; any other step (a rejected move, a rejected
\* Mage move) leaves current_turn, move_count and the log alone; so
\* move_count goes down only in an undo step.
C4_TurnAndCount ==
    [][/\ AppliedPly =>
            (current_turn' = Other(current_turn)
             /\ move_count' = move_count + 1)
       /\ UndoStep =>
            (last' = "undo"
             /\ current_turn' = Other(current_turn)
             /\ move_count' = move_count - 1)
       /\ last' \in {"rejected", "refused", "nothing_to_undo"} =>
            UNCHANGED <<board, current_turn, move_count, moves>>
       /\ move_count' < move_count => UndoStep]_vars

C4_Witness ==
    /\ last = "undo" /\ plies > 1
    /\ move_count = 2 + Len(moves)

\* The squares holding the Demon of colour c.
DemonAt(b, c) == {p \in Pos : b[p].kind = "Demon" /\ b[p].color = c}

\* C11: the Demons of the special board start with the King pattern; the
\* destinations of a Demon are those a figure of the class named by its power
\* (the class of the figure it took last) and of its colour has from the same
\* square on the same board; the power becomes the class of the figure taken
\* in a capturing move of the Demon and changes in no other step (a move of
\* the Demon that takes nothing, a move of another figure, a rejected move).
C11_DemonDelegation ==
    /\ \A p \in Pos : NewBoard[p].kind = "Demon" =>
          /\ NewBoard[p].power = "King"
          /\ get_possible_moves(NewBoard, NewBoard[p], p[1], p[2])
                = KingMoves(NewBoard, NewBoard[p].color, p[1], p[2])
    /\ [](mode = "special" =>
            \A p \in Pos : board[p].kind = "Demon" =>
                /\ board[p].power \in DemonPowers
                /\ get_possible_moves(board, board[p], p[1], p[2])
                      = ClassMoves(board, board[p].power, board[p].color,
                                   p[1], p[2]))
    /\ [][mode = "special" =>
            \A c \in Colors : \A p \in DemonAt(board, c) :
                \A q \in DemonAt(board', c) :
                    LET rec == moves'[Len(moves')]
                        took == /\ Len(moves') = Len(moves) + 1
                                /\ <<rec.start_row, rec.start_col>> = p
                                /\ rec.captured_figure # None
                    IN  board'[q].power =
                            IF took THEN rec.captured_figure.kind
                                    ELSE board[p].power]_vars

\* The Demon that took a Knight takes a Spearman with a Knight's move and
\* has the Spearman pattern from then on.
C11_Witness ==
    /\ mode = "special" /\ last = "captured"
    /\ \E p \in Pos :
          /\ board[p] = [kind |-> "Demon", color |-> White, power |-> "Spearman"]
          /\ moves[Len(moves)].captured_figure = Fig("Spearman", Black)
          /\ {Abs(p[1] - moves[Len(moves)].start_row),
               Abs(p[2] - moves[Len(moves)].start_col)} = {1, 2}
          /\ get_possible_moves(board, board[p], p[1], p[2])
                = SpearmanMoves(board, White, p[1], p[2])
          /\ get_possible_moves(board, board[p], p[1], p[2])
                # KingMoves(board, White, p[1], p[2])

\* The board with every Demon's power set back to the one it is built with.
StripPower(b) ==
    [p \in Pos |-> IF b[p].kind = "Demon" THEN Fig("Demon", b[p].color)
                                          ELSE b[p]]

\* Popping the log of g record by record: each time, the target cell of the
\* record on top holds a figure of the side that moved last and the origin
\* cell is empty.
RECURSIVE LogSound(_)
LogSound(g) ==
    IF g.moves = <<>> THEN TRUE
    ELSE LET rec == g.moves[Len(g.moves)]
         IN  /\ g.board[<<rec.end_row, rec.end_col>>] # None
             /\ g.board[<<rec.end_row, rec.end_col>>].color
                    = Other(g.current_turn)
             /\ g.board[<<rec.start_row, rec.start_col>>] = None
             /\ LogSound(undo_move(g))

\* The state after undo_move has emptied the log of g.
RECURSIVE UndoAll(_)
UndoAll(g) == IF g.moves = <<>> THEN g ELSE UndoAll(undo_move(g))

\* C19: while the game is not over, move_count is 1 plus half the length of
\* the log (2 + Len(moves) in half moves) and current_turn is white exactly
\* if the log has even length; whenever a record is popped its target cell
\* holds the figure that made the move (of the side that moved, its origin
\* empty), so that popping the whole log gives back the initial layout with
\* white to move.
C19_LogInvariant ==
    (IsChess /\ ~game_over) =>
        /\ move_count = 2 + Len(moves)
        /\ (current_turn = White <=> Len(moves) % 2 = 0)
        /\ LogSound(Current)
        /\ StripPower(UndoAll(Current).board)
              = (IF mode = "classic" THEN ClassicBoard ELSE NewBoard)
        /\ UndoAll(Current).current_turn = White
        /\ UndoAll(Current).move_count = 2

\* Two steps after an opening, the last of them an undo, with four records
\* left in the log.
C19_Witness ==
    /\ IsChess /\ last = "undo" /\ plies = 2
    /\ Len(moves) = 4
    /\ move_count = 6 /\ current_turn = White

\* C17: for every figure of the side to move and every target move_figure
\* accepts, the target cell then holds the figure that stood on the origin
\* (same kind, colour and power: nothing is promoted), the origin is empty,
\* the value returned is what stood on the target before (None if it was
\* empty), a figure taken is of the other colour, and no other cell changes.
C17_ChessMoveEffect ==
    (IsChess /\ ~game_over) =>
        \A s \in {p \in Pos : Selectable(p)} : \A e \in Targets(board, s) :
            LET out == move_figure(board, s[1], s[2], e[1], e[2])
            IN  out.ret # False =>
                  /\ e # s
                  /\ out.board[e] = board[s]
                  /\ out.board[s] = None
                  /\ out.ret = board[e]
                  /\ (out.ret # None => out.ret.color = Other(board[s].color))
                  /\ out.board = [board EXCEPT ![e] = board[s], ![s] = None]

\* The Queen has taken a Pawn and left her square empty.
C17_Witness ==
    /\ IsChess /\ last = "captured"
    /\ LET rec == moves[Len(moves)]
       IN  /\ board[<<rec.end_row, rec.end_col>>].kind = "Queen"
           /\ rec.captured_figure.kind = "Pawn"
           /\ board[<<rec.start_row, rec.start_col>>] = None

\* C13: whenever the side to move selects its Mage, each of the 64 squares
\* randint can draw is applied as a legal move: the Mage ends on that square,
\* a record is appended to the log and the turn switches (or the game ends,
\* when a King is taken); no square is rejected.
C13_MageNeverRejected ==
    (mode = "special" /\ ~game_over) =>
        \A s \in Pos : (Selectable(s) /\ board[s].kind = "Mage") =>
            \A e \in Pos :
                LET r == play_move(Current, s[1], s[2], e[1], e[2])
                IN  /\ r.ret # False
                    /\ r.game.board[e] = board[s]
                    /\ Len(r.game.moves) = Len(moves) + 1
                    /\ (r.over \/ r.game.current_turn = Other(current_turn))

----------------------------------------------------------------------------
(* Properties of both controllers (Spec) *)

\* C12: in classic chess, special chess and checkers an undo asked for at the
\* selection prompt while the undo log is empty is reported and does nothing:
\* board, current_turn and move_count stay as they are, the controller does
\* not fail and waits for a selection again.
C12_UndoOnEmptyLog ==
    [][(last' \in {"undo", "nothing_to_undo", "crash"} /\ moves = <<>>) =>
          /\ UNCHANGED <<board, current_turn, move_count, moves>>
          /\ last' = "nothing_to_undo"
          /\ pc' = "select"]_vars

\* C18: for every figure on the board other than a Mage and every square e
\* of the board, e is among the figure's destinations exactly if is_valid_move
\* accepts it; for Checker and KingChecker with either value of is_killer.
\* So no destination of a plain Checker is an occupied square.
C18_HintsAgreeWithValidation ==
    /\ IsChess =>
          \A s \in {p \in Pos : board[p] # None /\ board[p].kind # "Mage"} :
              \A e \in Pos :
                  e \in get_possible_moves(board, board[s], s[1], s[2])
                      <=> is_valid_move(board, board[s], s[1], s[2], e[1], e[2])
    /\ mode = "checkers" =>
          \A s \in {p \in Pos : board[p] # None} : \A killer \in BOOLEAN :
              \A e \in Pos :
                  e \in checker_possible_moves(board, board[s], s[1], s[2],
                                               killer)
                      <=> checker_is_valid_move(board, board[s], s[1], s[2],
                                                e[1], e[2], killer)

----------------------------------------------------------------------------
(* Properties of the checkers controller (SpecCheckers) *)

\* The square before e on the way from s.
Before(s, e) == <<e[1] - Sgn(e[1] - s[1]), e[2] - Sgn(e[2] - s[2])>>

\* Going from s to e is a jump: two or more rows away, over a figure that
\* stands right before e.
IsJump(b, s, e) == Abs(e[1] - s[1]) >= 2 /\ b[Before(s, e)] # None

\* The figure at s has a capture available.
CanCapture(b, s) ==
    \E e \in checker_possible_moves(b, b[s], s[1], s[2], TRUE) : IsJump(b, s, e)

\* C6: after a capturing jump the turn and the counter stay as they are
\* exactly if the figure that jumped can capture again from where it landed;
\* otherwise the turn switches and the counter rises by one half move; a move
\* that is not a capture always ends the turn.
C6_ChainContinuesIffCapture ==
    [][/\ (mode = "checkers" /\ last' = "captured" /\ board' # board) =>
            IF CanCapture(board', start')
            THEN current_turn' = current_turn /\ move_count' = move_count
            ELSE current_turn' = Other(current_turn)
                 /\ move_count' = move_count + 1
       /\ (mode = "checkers" /\ last' = "moved" /\ board' # board) =>
            (current_turn' = Other(current_turn)
             /\ move_count' = move_count + 1)]_vars

\* The square a figure arrived on in this step.
Landing == CHOOSE p \in Pos : board[p] = None /\ board'[p] # None

\* C7: a white figure landing on row 0, or a black one on row 7, is a
\* KingChecker of its colour afterwards; a move landing elsewhere keeps the
\* mover as it was; no plain white Checker ever stands on row 0 and no plain
\* black Checker on row 7.
C7_Promotion ==
    /\ [](mode = "checkers" =>
            \A p \in Pos :
                board[p].kind = "Checker" =>
                    /\ ~(board[p].color = White /\ p[1] = 0)
                    /\ ~(board[p].color = Black /\ p[1] = 7))
    /\ [][(mode = "checkers" /\ board' # board) =>
            LET mover == board[start]
            IN  IF (mover.color = White /\ Landing[1] = 0)
                   \/ (mover.color = Black /\ Landing[1] = 7)
                THEN board'[Landing] = Fig("KingChecker", mover.color)
                ELSE board'[Landing] = mover]_vars

C7_Witness ==
    /\ mode = "checkers" /\ last \in {"moved", "captured"}
    /\ \E c \in Rows : board[<<0, c>>] = Fig("KingChecker", White)

\* C15: once a figure has made a capturing jump and the turn has not
\* switched (is_killer is true at the target prompt), every move accepted is
\* made from the square that figure landed on and is itself a capturing jump.
C15_ChainMovesAreJumps ==
    [][(mode = "checkers" /\ pc = "target" /\ is_killer /\ board' # board) =>
          /\ board'[start] = None
          /\ IsJump(board, start, Landing)
          /\ last' = "captured"]_vars

\* The squares strictly between s and e on their common diagonal.
Between(s, e) ==
    {<<s[1] + k * Sgn(e[1] - s[1]), s[2] + k * Sgn(e[2] - s[2])>> :
        k \in 1 .. (Dist(s, e) - 1)}

\* C16: at every target prompt and for every target move_figure accepts: if
\* a figure stands between origin and target, it is the only one, it stands
\* right before the target, it is of the other colour, it is what move_figure
\* returns and its cell is emptied; if none stands there (a step, or a
\* KingChecker's slide over empty cells) move_figure returns None and takes
\* nothing off; either way the origin is emptied, the target holds the mover
\* or the KingChecker it is promoted to, and no other cell changes.
C16_CheckersMoveEffect ==
    (mode = "checkers" /\ pc = "target") =>
        \A e \in Pos :
            LET out == checkers_move_figure(board, start[1], start[2],
                                            e[1], e[2], is_killer)
                mover == board[start]
                jumped == {p \in Between(start, e) : board[p] # None}
                changed == {p \in Pos : out.board[p] # board[p]}
            IN  out.ret # False =>
                  /\ out.board[start] = None
                  /\ out.board[e] \in {mover, Fig("KingChecker", mover.color)}
                  /\ IF jumped # {}
                     THEN /\ jumped = {Before(start, e)}
                          /\ out.ret = board[Before(start, e)]
                          /\ out.ret.color = Other(mover.color)
                          /\ out.board[Before(start, e)] = None
                          /\ changed = {start, e, Before(start, e)}
                     ELSE /\ out.ret = None
                          /\ changed = {start, e}

\* A KingChecker at the prompt with a jump that lands three or more squares
\* away and a slide of two or more squares.
C16_Witness ==
    /\ mode = "checkers" /\ pc = "target"
    /\ board[start].kind = "KingChecker"
    /\ \E e \in Pos :
          /\ Dist(start, e) >= 3
          /\ checkers_move_figure(board, start[1], start[2], e[1], e[2],
                                  is_killer).ret \notin {False, None}
    /\ \E e \in Pos :
          /\ Dist(start, e) >= 2
          /\ checkers_move_figure(board, start[1], start[2], e[1], e[2],
                                  is_killer).ret = None

\* The figure that moved in this step of the chess controller stands on the
\* target of the record just appended; in checkers it stood on `start`.
C20_MoverColor ==
    IF IsChess
    THEN board'[<<moves'[Len(moves')].end_row,
                  moves'[Len(moves')].end_col>>].color
    ELSE board[start].color

\* C20: every move a controller applies to the board moves a figure of the
\* colour whose turn it is, in chess and in checkers, the jumps of a capture
\* chain included; a selection of an empty square or of a figure of the
\* other side is refused and changes nothing.
C20_TurnOwnership ==
    [][/\ (IsChess /\ Len(moves') = Len(moves) + 1) =>
            /\ C20_MoverColor = current_turn
            /\ board[<<moves'[Len(moves')].start_row,
                        moves'[Len(moves')].start_col>>].color = current_turn
       /\ (mode = "checkers" /\ board' # board) =>
            /\ C20_MoverColor = current_turn
            /\ board'[start] = None
            /\ board'[Landing].color = current_turn
       /\ last' = "refused" =>
            UNCHANGED <<board, current_turn, move_count, moves, game_over,
                        winner, pc, start, is_killer>>]_vars

\* The second jump of a capture chain has been made: a black Checker has
\* taken two white ones in one turn.
C20_Witness ==
    /\ mode = "checkers" /\ last = "captured" /\ is_killer
    /\ plies = 1 /\ start = <<3, 2>>
    /\ board[<<3, 2>>] = Fig("Checker", Black)
    /\ board[<<4, 3>>] = None /\ board[<<4, 5>>] = None
    /\ Cardinality({p \in Pos : board[p].color = White}) = 10
    /\ Cardinality({p \in Pos : board[p].color = Black}) = 12

\* The cells of board b holding a figure of colour c.
FiguresOf(b, c) == {p \in Pos : b[p] # None /\ b[p].color = c}

\* C22: the initial layout has plain Checkers exactly on the cells with
\* row + col odd of rows 0..2 (black) and rows 5..7 (white), twelve of each
\* colour; in every state of a game every cell is empty or holds one Checker
\* or KingChecker, every figure stands on a cell with row + col odd, and no
\* step adds a figure of either colour.
C22_DarkSquares ==
    /\ \A p \in Pos :
          CheckersInitialBoard[p] =
              IF (p[1] + p[2]) % 2 = 1 /\ p[1] \in 0 .. 2
              THEN Fig("Checker", Black)
              ELSE IF (p[1] + p[2]) % 2 = 1 /\ p[1] \in 5 .. 7
              THEN Fig("Checker", White)
              ELSE None
    /\ \A c \in Colors : Cardinality(FiguresOf(CheckersInitialBoard, c)) = 12
    /\ [](mode = "checkers" =>
            \A p \in Pos :
                board[p] # None =>
                    /\ (p[1] + p[2]) % 2 = 1
                    /\ board[p] \in {Fig(k, c) : k \in {"Checker", "KingChecker"},
                                                  c \in Colors})
    /\ [][mode = "checkers" =>
            \A c \in Colors :
                Cardinality(FiguresOf(board', c))
                    <= Cardinality(FiguresOf(board, c))]_vars

\* A KingChecker has just jumped over a figure and stands away from the row
\* it was promoted on.
C22_Witness ==
    /\ mode = "checkers" /\ last = "captured" /\ plies > 0
    /\ board[start].kind = "KingChecker"
    /\ start[1] \notin {0, 7}
    /\ \E c \in Colors : Cardinality(FiguresOf(board, c)) < 11

\* C21: when the figure selected at the start of a turn has no destinations,
\* the turn ends at once: the other colour is to move, the counter rises by
\* one half move, the board is as it was and the next prompt is a selection;
\* likewise when the figure that has just jumped has none from where it
\* landed, with the board left as the jump made it.
C21_EmptySetEndsTurn ==
    [][/\ (/\ mode = "checkers" /\ pc = "select"
           /\ last' \in {"selected", "pass"}
           /\ checker_possible_moves(board, board[start'], start'[1],
                                     start'[2], FALSE) = {}) =>
            /\ pc' = "select"
            /\ current_turn' = Other(current_turn)
            /\ move_count' = move_count + 1
            /\ board' = board
       /\ (/\ mode = "checkers" /\ pc = "target"
           /\ last' = "captured"
           /\ checker_possible_moves(board', board'[start'], start'[1],
                                     start'[2], TRUE) = {}) =>
            /\ pc' = "select"
            /\ current_turn' = Other(current_turn)
            /\ move_count' = move_count + 1
            /\ board' = checkers_move_figure(board, start[1], start[2],
                                             start'[1], start'[2],
                                             is_killer).board]_vars

\* Black has selected the KingChecker on (7, 2), shut in by white figures,
\* and the turn has gone to white.
C21_Witness ==
    /\ mode = "checkers" /\ last = "pass" /\ pc = "select"
    /\ start = <<7, 2>>
    /\ board[start] = Fig("KingChecker", Black)
    /\ current_turn = White
    /\ move_count = 14

\* C14: whenever the checkers controller waits for a target (the figure
\* selected has a non-empty set of destinations), some square of the board is
\* a target move_figure accepts, so the turn can be completed.
C14_TargetPromptCanBeAnswered ==
    (mode = "checkers" /\ pc = "target") =>
        \E e \in Pos :
            checkers_move_figure(board, start[1], start[2], e[1], e[2],
                                 is_killer).ret # False

----------------------------------------------------------------------------
(* Properties of the direct calls (SpecRequests) *)

\* is_valid_move with a target off the board answers False.
OffBoardTargetInvalid ==
    (last' \in {"valid", "invalid"} /\ request'.end \notin Pos) =>
        last' = "invalid"

\* move_figure from an occupied square to a target off the board returns
\* False and leaves the board as it was.
OffBoardTargetRejected ==
    (last' \in {"rejected", "moved", "captured"} /\ request'.end \notin Pos) =>
        (last' = "rejected" /\ board' = board)

\* get_possible_moves asked from an origin off the board returns nothing.
OffBoardOriginEmpty ==
    (last' = "destinations" /\ request'.start \notin Pos) => hints' = {}

\* C23: for every figure and every board, is_valid_move answers False for a
\* target with a row or column outside 0..7, move_figure from an occupied
\* square to such a target returns False with the board unchanged, and
\* get_possible_moves asked from an origin outside the board returns the
\* empty set.
C23_OutOfRange ==
    [][mode = "requests" =>
          /\ OffBoardTargetInvalid
          /\ OffBoardTargetRejected
          /\ OffBoardOriginEmpty]_vars

\* The k-th square from o in direction d.
Ahead(o, d, k) == <<o[1] + k * d[1], o[2] + k * d[2]>>

\* The distances from o in direction d at which a figure stands.
Met(o, d) ==
    {k \in 1 .. (N - 1) : Ahead(o, d, k) \in Pos /\ board[Ahead(o, d, k)] # None}

\* The distance of the first figure met from o in direction d, N if none.
FirstMet(o, d) ==
    IF Met(o, d) = {} THEN N
    ELSE CHOOSE k \in Met(o, d) : \A j \in Met(o, d) : k <= j

\* The first figure met is of the other colour and the square right behind
\* it is on the board and empty.
CanLand(color, o, d) ==
    /\ Met(o, d) # {}
    /\ board[Ahead(o, d, FirstMet(o, d))].color # color
    /\ Ahead(o, d, FirstMet(o, d) + 1) \in Pos
    /\ board[Ahead(o, d, FirstMet(o, d) + 1)] = None

\* What C24 lets a KingChecker of the colour reach from o in direction d.
KingReach(color, o, d) ==
    {Ahead(o, d, k) : k \in {j \in 1 .. (N - 1) :
                                /\ Ahead(o, d, j) \in Pos
                                /\ j < FirstMet(o, d)}}
        \cup (IF CanLand(color, o, d)
              THEN {Ahead(o, d, FirstMet(o, d) + 1)}
              ELSE {})

\* C24: the destinations of a KingChecker asked from a square of the board
\* are, along each of the four diagonals, the empty squares before the first
\* figure met, plus the square right behind that figure when the figure is
\* of the other colour and that square is on the board and empty; nothing
\* at or beyond a figure of its own colour, or an enemy whose back is
\* covered or on the edge, and nothing off the diagonals.
C24_KingCheckerDestinations ==
    (/\ mode = "requests" /\ last = "destinations"
     /\ request.self.kind = "KingChecker"
     /\ request.start \in Pos) =>
        hints = UNION {KingReach(request.self.color, request.start, d) :
                          d \in {<<1, 1>>, <<1, -1>>, <<-1, 1>>, <<-1, -1>>}}

\* A KingChecker has been asked from a square where one diagonal ends, two
\* or more empty squares away, with a jump over an enemy, another meets an
\* enemy whose back is covered and a third meets a figure of its own colour.
C24_Witness ==
    /\ mode = "requests" /\ last = "destinations"
    /\ request.self.kind = "KingChecker"
    /\ request.start \in Pos
    /\ LET o == request.start
           color == request.self.color
           ds == {<<1, 1>>, <<1, -1>>, <<-1, 1>>, <<-1, -1>>}
       IN  /\ \E d \in ds :
                 /\ FirstMet(o, d) >= 3 /\ CanLand(color, o, d)
                 /\ Ahead(o, d, FirstMet(o, d) + 1) \in hints
           /\ \E d \in ds :
                 /\ Met(o, d) # {}
                 /\ board[Ahead(o, d, FirstMet(o, d))].color # color
                 /\ Ahead(o, d, FirstMet(o, d) + 1) \in Pos
                 /\ board[Ahead(o, d, FirstMet(o, d) + 1)] # None
           /\ \E d \in ds :
                 /\ Met(o, d) # {}
                 /\ board[Ahead(o, d, FirstMet(o, d))].color = color

----------------------------------------------------------------------------
(* Properties of the figures and boards (SpecPieces) *)

Subject == board[start]

\* C3: move_figure of either board is all or nothing, from the square of the
\* figure under test and from an empty square, to the hinted and the
\* occupied squares.  A call that returns False leaves all 64 cells alone; it returns False exactly if the origin
\* is empty or is_valid_move of the figure there is false; a move that goes
\* through and takes nothing returns None, which is not False.
C3_MoveIsAtomic ==
    last = "hints" =>
        LET mirror == <<start[1], 7 - start[2]>>
            origins == IF board[mirror] = None THEN {start, mirror} ELSE {start}
            targets == hints \cup {p \in Around \cup {start} : board[p] # None}
        IN  \A s \in origins : \A e \in targets :
            LET out == BoardMove(board, IsCheckers(Subject), s, e, is_killer)
                valid == board[s] # None
                         /\ Valid(board, board[s], s, e, is_killer)
            IN  /\ out.ret = False => out.board = board
                /\ out.ret = False <=> ~valid
                /\ valid => (out.board[s] = None /\ out.board[e] # None)
                /\ (valid /\ ~IsCheckers(Subject) /\ board[e] = None)
                      => out.ret = None

C3_Witness ==
    /\ last = "hints"
    /\ \E e \in hints :
          /\ board[e] # None
          /\ BoardMove(board, IsCheckers(Subject), start, e, is_killer).ret
                = board[e]
    /\ BoardMove(board, IsCheckers(Subject), start, start, is_killer).ret = False

\* C5: a Checker's or KingChecker's destinations that include a jump include
\* no destination that is not a jump.
C5_CaptureExcludesSteps ==
    (last = "hints" /\ IsCheckers(Subject)) =>
        ((\E e \in hints : IsJump(board, start, e))
            => (\A e \in hints : IsJump(board, start, e)))

\* C8: every destination of every figure is on the board.
C8_DestinationsOnBoard ==
    last = "hints" =>
        \A p \in hints : 0 <= p[1] /\ p[1] < 8 /\ 0 <= p[2] /\ p[2] < 8

C8_Witness ==
    /\ last = "hints" /\ hints # {}
    /\ start[1] \in {0, 7} /\ start[2] \in {0, 7}
    /\ Subject.kind \in {"Knight", "Checker", "Demon"}

\* The square k steps from `start` in direction d.
Step(d, k) == <<start[1] + k * d[1], start[2] + k * d[2]>>

\* What a slider of `color` reaches in direction d: the squares with nothing
\* before them that are empty or hold a figure of the other colour.
Reach(color, d) ==
    {p \in {Step(d, k) : k \in 1 .. 7} \cap Pos :
        /\ \A q \in {Step(d, k) : k \in 1 .. 7} \cap Pos :
              Dist(q, start) < Dist(p, start) => board[q] = None
        /\ (board[p] = None \/ board[p].color # color)}

SlideDirections(kind) ==
    CASE kind = "Rook"   -> RookDirections
      [] kind = "Bishop" -> BishopDirections
      [] kind = "Queen"  -> RookDirections \cup BishopDirections

\* C9: the destinations of a Rook, Bishop or Queen are, in each of its
\* directions, the empty squares up to the first occupied one, and that one
\* if it holds a figure of the other colour; nothing beyond it.
C9_SlidesStopAtFirstFigure ==
    (last = "hints" /\ Subject.kind \in {"Rook", "Bishop", "Queen"}) =>
        hints = UNION {Reach(Subject.color, d) :
                          d \in SlideDirections(Subject.kind)}

C9_Witness ==
    /\ last = "hints" /\ Subject.kind = "Queen"
    /\ \E p \in hints : board[p] # None /\ Dist(p, start) = 2

\* C10: a Pawn is offered the square two ahead exactly if it stands on its
\* home row and the squares one and two ahead are empty; the square one ahead
\* exactly if it is on the board and empty; each square diagonally ahead
\* exactly if it is on the board and holds a figure of the other colour.  On
\* the standard board the white pawn at (6,4) is offered (5,4) and (4,4),
\* and once moved to (4,4) only (3,4).
C10_PawnDestinations ==
    /\ PawnMoves(ClassicBoard, White, 6, 4) = {<<5, 4>>, <<4, 4>>}
    /\ move_figure(ClassicBoard, 6, 4, 4, 4).ret = None
    /\ PawnMoves(move_figure(ClassicBoard, 6, 4, 4, 4).board, White, 4, 4)
          = {<<3, 4>>}
    /\ (last = "hints" /\ Subject.kind = "Pawn") =>
          LET dir == IF Subject.color = White THEN -1 ELSE 1
              home == IF Subject.color = White THEN 6 ELSE 1
              one == <<start[1] + dir, start[2]>>
              two == <<start[1] + 2 * dir, start[2]>>
              Free(p) == p \in Pos /\ board[p] = None
              Enemy(p) == p \in Pos /\ board[p] # None
                          /\ board[p].color # Subject.color
          IN  /\ two \in hints <=> (start[1] = home /\ Free(one) /\ Free(two))
              /\ one \in hints <=> Free(one)
              /\ \A dc \in {-1, 1} :
                    <<start[1] + dir, start[2] + dc>> \in hints
                        <=> Enemy(<<start[1] + dir, start[2] + dc>>)
              /\ hints \subseteq {one, two, <<start[1] + dir, start[2] - 1>>,
                                  <<start[1] + dir, start[2] + 1>>}

C10_Witness ==
    /\ last = "hints" /\ Subject = Fig("Pawn", White) /\ start[1] = 6
    /\ board[<<4, start[2]>>] # None
    /\ hints = {<<5, start[2]>>}

====
